---- MODULE Spec2Model ----
(***************************************************************************)
(* The snake game of src/main.rs as a state machine: the Game struct, the  *)
(* main loop Game::looping (render, process_event, update_game_state when  *)
(* the tick period has elapsed, sleep) and the terminal's event queue.     *)
(***************************************************************************)
EXTENDS Integers, Sequences, FiniteSets, TLC

VARIABLES
    body,      \* snake.body: sequence of cell anchors <<x, y>>, head first
    dir,       \* snake.dir
    food,      \* food.pos
    score,     \* score
    is_over,   \* is_over
    elapsed,   \* time.elapsed() in milliseconds, saturated at TIME_STEP + 1
    pc,        \* position of the loop: "loop", "poll", "tick", "sleep", "done"
    events,    \* the terminal's queue of pending events, oldest first
    wall,      \* wall.cells, as a set of cell anchors
    ticks,     \* number of calls of update_game_state since the initial state
    keys,      \* number of events typed since the initial state
    last,      \* history: the name of the step taken last
    pre,       \* history: the game and the queue as they were before that step
    polled     \* history: the heading process_event found and the event it
               \* applied ("none" for an empty queue), until the iteration's sleep

vars ==
    <<body, dir, food, score, is_over, elapsed, pc, events, wall, ticks, keys,
      last, pre, polled>>

(* ------------------------------ constants ------------------------------ *)

CELL_SZ == <<2, 1>>
GND_SZ == <<64, 32>>
TIME_STEP == 150
U16 == 65536
InitLen == 3
InitFoodX == 30
InitFoodY == 30

(* ------------------------------- bounds -------------------------------- *)

MaxTicks == 17
MaxKeys == 2

(* ------------------------------ geometry ------------------------------- *)

\* dir_rev of Snake::new
Reverse(d) ==
    CASE d = "Up" -> "Down"
      [] d = "Down" -> "Up"
      [] d = "Left" -> "Right"
      [] d = "Right" -> "Left"

\* u16 arithmetic of a build without overflow checks
Add16(a, b) == (a + b) % U16

Sub16(a, b) == (a - b + U16) % U16

\* Cell::clone_with_pos_shift with the steps applied to the wrong axis size
clone_with_pos_shift_swapped(c, d, steps) ==
    CASE d = "Up" -> <<c[1], Sub16(c[2], steps * CELL_SZ[1])>>
      [] d = "Down" -> <<c[1], Add16(c[2], steps * CELL_SZ[1])>>
      [] d = "Left" -> <<Sub16(c[1], steps * CELL_SZ[2]), c[2]>>
      [] d = "Right" -> <<Add16(c[1], steps * CELL_SZ[2]), c[2]>>

\* Cell::clone_with_pos_shift
clone_with_pos_shift(c, d, steps) ==
    CASE d = "Up" -> <<c[1], Sub16(c[2], steps * CELL_SZ[2])>>
      [] d = "Down" -> <<c[1], Add16(c[2], steps * CELL_SZ[2])>>
      [] d = "Left" -> <<Sub16(c[1], steps * CELL_SZ[1]), c[2]>>
      [] d = "Right" -> <<Add16(c[1], steps * CELL_SZ[1]), c[2]>>

(* -------------------------------- snake -------------------------------- *)

Snake_new(pos, d, len) == [i \in 1..len |-> clone_with_pos_shift(pos, Reverse(d), i - 1)]

head(b) == b[1]

push_front(b, c) == <<c>> \o b

pop_back(b) == SubSeq(b, 1, Len(b) - 1)

\* grow_body that pushes a copy of the head
grow_body_in_place(b, d) == push_front(b, head(b))

grow_body(b, d) == push_front(b, clone_with_pos_shift(head(b), d, 1))

\* move_body without its pop_back
move_body_keep_tail(b, d) == push_front(b, clone_with_pos_shift(head(b), d, 1))

move_body(b, d) == pop_back(push_front(b, clone_with_pos_shift(head(b), d, 1)))

check_bite_body(b) == \E i \in 2..Len(b) : b[i] = head(b)

\* check_bite_food that never finds the head on the food
check_bite_food_never(b, f) == FALSE

check_bite_food(b, f) == head(b) = f

\* check_overlap_food that skips the head, as check_bite_body does
check_overlap_food_skip_head(b, f) == \E i \in 2..Len(b) : b[i] = f

check_overlap_food(b, f) == \E i \in 1..Len(b) : b[i] = f

(* -------------------------------- wall --------------------------------- *)

\* Wall::new with the right wall at GND_SZ.0 instead of GND_SZ.0 - CELL_SZ.0
Wall_new_right_at_edge ==
    {<<i * CELL_SZ[1], CELL_SZ[2]>> : i \in 1..(GND_SZ[1] \div CELL_SZ[1] - 1)}
    \cup {<<CELL_SZ[1], i * CELL_SZ[2]>> : i \in 2..(GND_SZ[2] \div CELL_SZ[2] - 1)}
    \cup {<<GND_SZ[1], i * CELL_SZ[2]>> : i \in 2..(GND_SZ[2] \div CELL_SZ[2] - 1)}
    \cup {<<i * CELL_SZ[1], GND_SZ[2]>> : i \in 1..(GND_SZ[1] \div CELL_SZ[1] - 1)}

\* Wall::new: the top, left, right and bottom runs, in the order of the chain
Wall_new ==
    {<<i * CELL_SZ[1], CELL_SZ[2]>> : i \in 1..(GND_SZ[1] \div CELL_SZ[1] - 1)}
    \cup {<<CELL_SZ[1], i * CELL_SZ[2]>> : i \in 2..(GND_SZ[2] \div CELL_SZ[2] - 1)}
    \cup {<<GND_SZ[1] - CELL_SZ[1], i * CELL_SZ[2]>> : i \in 2..(GND_SZ[2] \div CELL_SZ[2] - 1)}
    \cup {<<i * CELL_SZ[1], GND_SZ[2]>> : i \in 1..(GND_SZ[1] \div CELL_SZ[1] - 1)}

\* check_collide_wall that never finds the head on the wall
check_collide_wall_never(b, w) == FALSE

check_collide_wall(b, w) == head(b) \in w

(* -------------------------------- food --------------------------------- *)

\* the anchors update_food_pos can draw
FoodSamples ==
    {<<i * CELL_SZ[1], j * CELL_SZ[2]>> :
        i \in 1..(GND_SZ[1] \div CELL_SZ[1] - 2), j \in 2..(GND_SZ[2] \div CELL_SZ[2] - 2)}

(* -------------------------------- input -------------------------------- *)

ArrowKeys == {"Up", "Down", "Left", "Right"}

EventKinds == ArrowKeys \cup {"q", "other"}

\* an arrow key that is never applied
TurnNever(d, k) == d

\* an arrow key that is always accepted
TurnAlways(d, k) == k

\* the heading after one arrow key: refused when it is the reverse of d
Turn(d, k) == IF d # Reverse(k) THEN k ELSE d

\* a 'q' that is ignored
QuitIgnored(k, over) == over

\* is_over after one event
Quit(k, over) == IF k = "q" THEN TRUE ELSE over

\* a process_event without its flush loop: the rest of the queue stays
flush_nothing(q) == q

\* while event::poll(0) { event::read() }: what is left of the queue q
flush(q) == <<>>

(* -------------------------------- loop --------------------------------- *)

\* a loop that never looks at is_over
LoopCondAlways(over) == TRUE

\* while !self.is_over
LoopCond(over) == ~over

\* self.time.elapsed() > self.time_step
TickDue(e) == e > TIME_STEP

\* the time one iteration can take beyond its sleep: the usual millisecond
\* of rendering, or a stall of a whole tick period
Lags == {1, TIME_STEP}

Saturate(t) == IF t > TIME_STEP THEN TIME_STEP + 1 ELSE t

(* ------------------------------- machine ------------------------------- *)

Snap ==
    [body |-> body, dir |-> dir, food |-> food, score |-> score,
     is_over |-> is_over, events |-> events, elapsed |-> elapsed]

NotPolled == [dir |-> "none", key |-> "none"]

Init ==
    /\ body = Snake_new(<<GND_SZ[1] \div 2, GND_SZ[2] \div 2>>, "Right", InitLen)
    /\ dir = "Right"
    /\ food = <<InitFoodX, InitFoodY>>
    /\ score = 0
    /\ is_over = FALSE
    /\ elapsed = 0
    /\ pc = "loop"
    /\ events = <<>>
    /\ wall = Wall_new
    /\ ticks = 0
    /\ keys = 0
    /\ last = "Init"
    /\ pre = Snap
    /\ polled = NotPolled

\* an event reaches the terminal's queue; the queue is only read by the
\* polls of process_event, so arrivals are taken at that point of the loop
KeyPress(k) ==
    /\ pc = "poll"
    /\ keys < MaxKeys
    /\ events' = Append(events, k)
    /\ keys' = keys + 1
    /\ last' = "KeyPress"
    /\ pre' = Snap
    /\ UNCHANGED <<body, dir, food, score, is_over, elapsed, pc, wall, ticks, polled>>

\* the loop condition holds: the iteration starts with self.render(buffer)
Render ==
    /\ pc = "loop"
    /\ LoopCond(is_over)
    /\ pc' = "poll"
    /\ last' = "Render"
    /\ pre' = Snap
    /\ UNCHANGED <<body, dir, food, score, is_over, elapsed, events, wall, ticks, keys, polled>>

\* the loop condition fails: looping returns
Exit ==
    /\ pc = "loop"
    /\ ~LoopCond(is_over)
    /\ pc' = "done"
    /\ last' = "Exit"
    /\ pre' = Snap
    /\ UNCHANGED <<body, dir, food, score, is_over, elapsed, events, wall, ticks, keys, polled>>

\* process_event: the first pending event is applied, the rest are read and dropped
process_event ==
    /\ pc = "poll"
    /\ pc' = "tick"
    /\ IF events = <<>>
          THEN UNCHANGED <<dir, is_over>>
          ELSE /\ dir' = IF Head(events) \in ArrowKeys THEN Turn(dir, Head(events)) ELSE dir
               /\ is_over' = Quit(Head(events), is_over)
    /\ events' = IF events = <<>> THEN events ELSE flush(Tail(events))
    /\ polled' = [dir |-> dir, key |-> IF events = <<>> THEN "none" ELSE Head(events)]
    /\ last' = "process_event"
    /\ pre' = Snap
    /\ UNCHANGED <<body, food, score, elapsed, wall, ticks, keys>>

\* update_game_state followed by self.time = Instant::now()
update_game_state ==
    /\ pc = "tick"
    /\ TickDue(elapsed)
    /\ ticks < MaxTicks
    /\ is_over' = IF check_bite_body(body) \/ check_collide_wall(body, wall) THEN TRUE ELSE is_over
    /\ IF check_bite_food(body, food)
          THEN /\ score' = Add16(score, 1)
               /\ body' = grow_body(body, dir)
               /\ \E f \in FoodSamples :
                     /\ ~check_overlap_food(body', f)
                     /\ food' = f
          ELSE /\ body' = move_body(body, dir)
               /\ UNCHANGED <<score, food>>
    /\ elapsed' = 0
    /\ ticks' = ticks + 1
    /\ pc' = "sleep"
    /\ last' = "update_game_state"
    /\ pre' = Snap
    /\ UNCHANGED <<dir, events, wall, keys, polled>>

\* the tick period has not elapsed: the iteration changes nothing
SkipUpdate ==
    /\ pc = "tick"
    /\ ~TickDue(elapsed)
    /\ pc' = "sleep"
    /\ last' = "SkipUpdate"
    /\ pre' = Snap
    /\ UNCHANGED <<body, dir, food, score, is_over, elapsed, events, wall, ticks, keys, polled>>

\* thread::sleep(self.time_step / 2), plus the time the iteration itself took
Sleep ==
    /\ pc = "sleep"
    /\ \E lag \in Lags : elapsed' = Saturate(elapsed + TIME_STEP \div 2 + lag)
    /\ pc' = "loop"
    /\ polled' = NotPolled
    /\ last' = "Sleep"
    /\ pre' = Snap
    /\ UNCHANGED <<body, dir, food, score, is_over, events, wall, ticks, keys>>

Next ==
    \/ \E k \in EventKinds : KeyPress(k)
    \/ Render
    \/ Exit
    \/ process_event
    \/ update_game_state
    \/ SkipUpdate
    \/ Sleep

Spec == Init /\ [][Next]_vars

\* The game one tick after its first meal, ticks and keys counted from here.
\* From Game::new the keys Down (head at x = 32) and Left (head at y = 30)
\* bring the head onto the food (30, 30); the tick after that grows the snake
\* to <<(28,30), (30,30), (32,30), (32,29)>>, the key Up and one more tick
\* give this body. The food is one anchor update_food_pos can have drawn.
InitMeal ==
    /\ body = <<<<28, 29>>, <<28, 30>>, <<30, 30>>, <<32, 30>>>>
    /\ dir = "Up"
    /\ food = <<58, 30>>
    /\ score = 1
    /\ is_over = FALSE
    /\ elapsed = 0
    /\ pc = "sleep"
    /\ events = <<>>
    /\ wall = Wall_new
    /\ ticks = 0
    /\ keys = 0
    /\ last = "Init"
    /\ pre = Snap
    /\ polled = NotPolled

SpecMeal == InitMeal /\ [][Next]_vars

\* the interior has Cols columns x = 2W, ..., GW-2W and Rows rows y = 2H, ..., GH-H
Cols == GND_SZ[1] \div CELL_SZ[1] - 3

Rows == GND_SZ[2] \div CELL_SZ[2] - 2

\* the anchor of the interior cell in column c (1..Cols) and row r (1..Rows)
At(c, r) == <<CELL_SZ[1] * (c + 1), CELL_SZ[2] * (r + 1)>>

\* A closed tour of the interior, cell i of Cols * Rows: row 1 rightwards,
\* rows 2..Rows over the columns 2..Cols alternately leftwards and rightwards,
\* column 1 upwards back to row 1. Consecutive cells are one step apart.
Lap(i) ==
    IF i < Cols
       THEN At(i + 1, 1)
       ELSE IF i < Cols + (Rows - 1) * (Cols - 1)
               THEN LET j == i - Cols
                        r == 2 + j \div (Cols - 1)
                        k == j % (Cols - 1)
                    IN  IF r % 2 = 0 THEN At(Cols - k, r) ELSE At(2 + k, r)
               ELSE At(1, Rows - (i - Cols - (Rows - 1) * (Cols - 1)))

\* The game before its last possible meal: the snake, grown to one cell
\* less than the interior by ticks of update_game_state, lies along the tour
\* with its head on the food in (58, 2), heading Right towards the only free
\* interior cell (60, 2); ticks and keys are counted from here.
InitFull ==
    /\ body = [j \in 1..(Cols * Rows - 1) |-> Lap((Cols - 1 - j + Cols * Rows) % (Cols * Rows))]
    /\ dir = "Right"
    /\ food = Lap(Cols - 2)
    /\ score = Cols * Rows - 1 - InitLen
    /\ is_over = FALSE
    /\ elapsed = 0
    /\ pc = "sleep"
    /\ events = <<>>
    /\ wall = Wall_new
    /\ ticks = 0
    /\ keys = 0
    /\ last = "Init"
    /\ pre = Snap
    /\ polled = NotPolled

SpecFull == InitFull /\ [][Next]_vars

(* ------------------------ vocabulary of the claims ---------------------- *)

\* the cell one step from c in direction d, in unbounded integers
Ahead(c, d) ==
    CASE d = "Up" -> <<c[1], c[2] - CELL_SZ[2]>>
      [] d = "Down" -> <<c[1], c[2] + CELL_SZ[2]>>
      [] d = "Left" -> <<c[1] - CELL_SZ[1], c[2]>>
      [] d = "Right" -> <<c[1] + CELL_SZ[1], c[2]>>

Opposite(d, k) ==
    \/ d = "Up" /\ k = "Down"
    \/ d = "Down" /\ k = "Up"
    \/ d = "Left" /\ k = "Right"
    \/ d = "Right" /\ k = "Left"

\* the interior {W < x < GW - W, H < y < GH}
Interior(c) ==
    /\ CELL_SZ[1] < c[1] /\ c[1] < GND_SZ[1] - CELL_SZ[1]
    /\ CELL_SZ[2] < c[2] /\ c[2] < GND_SZ[2]

\* the four border segments: rows y = H and y = GH, columns x = W and x = GW - W
Border(c) ==
    \/ /\ c[2] \in {CELL_SZ[2], GND_SZ[2]}
       /\ CELL_SZ[1] <= c[1] /\ c[1] <= GND_SZ[1] - CELL_SZ[1]
       /\ c[1] % CELL_SZ[1] = 0
    \/ /\ c[1] \in {CELL_SZ[1], GND_SZ[1] - CELL_SZ[1]}
       /\ CELL_SZ[2] < c[2] /\ c[2] < GND_SZ[2]

\* the cells of a body behind its head
Behind(b) == {b[i] : i \in 2..Len(b)}

\* the body b moved one cell in direction d: new head, tail dropped
Stepped(b, d) == [i \in 1..Len(b) |-> IF i = 1 THEN Ahead(b[1], d) ELSE b[i - 1]]

\* the body b grown by one cell in direction d: new head, tail kept
Grown(b, d) == [i \in 1..(Len(b) + 1) |-> IF i = 1 THEN Ahead(b[1], d) ELSE b[i - 1]]

\* the last step was a tick, taken from a Running game
Ticked == last = "update_game_state"

RunningTick == Ticked /\ ~pre.is_over

\* the last step was the input step and it applied the event k
Applied(k) == last = "process_event" /\ pre.events # <<>> /\ Head(pre.events) = k

\* what a tick did, read from the game before and after it
BecameOver == ~pre.is_over /\ is_over

DidGrow ==
    /\ body = Grown(pre.body, pre.dir)
    /\ score = pre.score + 1
    /\ food # pre.food
    /\ food \notin {body[i] : i \in 1..Len(body)}

DidStep ==
    /\ body = Stepped(pre.body, pre.dir)
    /\ score = pre.score
    /\ food = pre.food

(* -------------------------------- C1 ----------------------------------- *)

\* C1 as claimed: a tick of a Running game whose prospective head (the cell
\* one step ahead of the head in the heading) is a wall cell or a body cell
\* of index >= 1 sets is_over.
C1_ProspectiveHeadDecides ==
    (RunningTick /\ ( \/ Border(Ahead(pre.body[1], pre.dir))
                      \/ Ahead(pre.body[1], pre.dir) \in Behind(pre.body) ))
        => is_over

\* C1 as amended: collision is decided on the current head. A tick of a Running
\* game sets is_over exactly when the cell the head already occupies is a wall
\* cell or a body cell of index >= 1; a snake whose prospective head is a wall
\* cell first steps onto the wall and is Over one tick later.
C1_CurrentHeadDecides ==
    RunningTick =>
        /\ is_over <=> (Border(pre.body[1]) \/ pre.body[1] \in Behind(pre.body))
        /\ (~is_over /\ Border(Ahead(pre.body[1], pre.dir))) => Border(body[1])

C1_Witness ==
    /\ RunningTick
    /\ is_over
    /\ pre.body[1] = <<GND_SZ[1] - CELL_SZ[1], GND_SZ[2] \div 2>>
    /\ pre.dir = "Right"

(* -------------------------------- C2 ----------------------------------- *)

\* C2 as claimed: the tick that turns is_over from false to true changes
\* nothing else: body, heading, food and score are as before it.
C2_OverTickChangesNothing ==
    (Ticked /\ BecameOver) =>
        /\ body = pre.body
        /\ dir = pre.dir
        /\ food = pre.food
        /\ score = pre.score

\* C2 as amended: the tick that turns is_over from false to true leaves the
\* heading unchanged and still advances the snake as any other tick does: it
\* steps one cell in the heading (length, food and score unchanged) when the
\* head is not on the food, and grows (length + 1, score + 1, food re-placed)
\* when it is.
C2_OverTickStillAdvances ==
    (Ticked /\ BecameOver) =>
        /\ dir = pre.dir
        /\ IF pre.body[1] = pre.food THEN DidGrow ELSE DidStep
        /\ body # pre.body

C2_Witness ==
    /\ Ticked
    /\ BecameOver
    /\ Border(pre.body[1])
    /\ Len(body) = Len(pre.body)
    /\ body[2] = pre.body[1]

(* -------------------------------- C3 ----------------------------------- *)

\* C3 as claimed: every tick performs exactly one of Over (is_over becomes
\* true), grow and step.
C3_ExactlyOneOfThree ==
    Ticked =>
        /\ BecameOver \/ DidGrow \/ DidStep
        /\ ~(BecameOver /\ DidGrow)
        /\ ~(BecameOver /\ DidStep)
        /\ ~(DidGrow /\ DidStep)

\* C3 as amended: every tick performs exactly one of grow and step, grow
\* exactly when the head is on the food; is_over becoming true is no outcome
\* of its own: it happens in addition to the step or the grow of that tick.
C3_ExactlyOneOfTwo ==
    Ticked =>
        /\ DidGrow \/ DidStep
        /\ ~(DidGrow /\ DidStep)
        /\ DidGrow <=> (pre.body[1] = pre.food)
        /\ BecameOver => (DidGrow \/ DidStep)

C3_Witness == Ticked /\ BecameOver /\ DidStep /\ Border(pre.body[1])

(* -------------------------------- C4 ----------------------------------- *)

\* C4 as claimed: a tick of a Running game with no collision ahead whose
\* prospective head is the food puts the head on the old food, adds 1 to the
\* length and to the score, and moves the food.
C4_EatsOnArrival ==
    (/\ RunningTick
     /\ ~Border(Ahead(pre.body[1], pre.dir))
     /\ Ahead(pre.body[1], pre.dir) \notin Behind(pre.body)
     /\ Ahead(pre.body[1], pre.dir) = pre.food)
        => /\ body[1] = pre.food
           /\ Len(body) = Len(pre.body) + 1
           /\ score = pre.score + 1
           /\ food # pre.food

\* C4 as amended: eating happens on the tick after the head arrives at the
\* food. A tick whose prospective head is the food only steps onto it (length,
\* score and food unchanged); the tick that starts with the head on the food
\* grows the snake by a new head one cell past the food, adds 1 to the length
\* and to the score and moves the food off the snake.
C4_EatsOneTickLater ==
    /\ (Ticked /\ pre.body[1] # pre.food /\ Ahead(pre.body[1], pre.dir) = pre.food)
          => /\ body[1] = pre.food
             /\ Len(body) = Len(pre.body)
             /\ score = pre.score
             /\ food = pre.food
    /\ (Ticked /\ pre.body[1] = pre.food)
          => /\ body[1] = Ahead(pre.food, pre.dir)
             /\ body[2] = pre.food
             /\ Len(body) = Len(pre.body) + 1
             /\ score = pre.score + 1
             /\ food # pre.food
             /\ \A i \in 1..Len(body) : body[i] # food

C4_Witness ==
    /\ Ticked
    /\ pre.body[1] = pre.food
    /\ score = 1
    /\ Len(body) = InitLen + 1

(* -------------------------------- C5 ----------------------------------- *)

\* C5: a tick adds 1 to the length when it consumes the food (the score goes
\* up by 1 in that tick) and leaves it unchanged otherwise; no other step
\* changes the length; the length starts at 3, is at least 1, and is
\* always 3 + score.
C5_LengthMonotone ==
    /\ Len(body) = 3 + score
    /\ Len(body) >= 1
    /\ last = "Init" => Len(body) = 3
    /\ Ticked =>
          /\ Len(body) - Len(pre.body) = score - pre.score
          /\ Len(body) - Len(pre.body) = (IF pre.body[1] = pre.food THEN 1 ELSE 0)
    /\ ~Ticked => (Len(body) = Len(pre.body) /\ score = pre.score)

C5_Witness == Ticked /\ Len(body) = 4 /\ Len(pre.body) = 3 /\ score = 1

(* -------------------------------- C6 ----------------------------------- *)

C7_NoReversalIntoNeck ==
    Ticked => Ahead(pre.body[1], pre.dir) # pre.body[2]

(* -------------------------------- C8 ----------------------------------- *)

\* C8 as claimed: once is_over is true it stays true and no step changes the
\* snake, the score or the food any more.
C8_OverFreezesGame ==
    [][is_over => (is_over' /\ body' = body /\ score' = score /\ food' = food)]_vars

\* C8 as amended: once is_over is true it never becomes false again and no
\* further loop iteration starts (no render, no poll, no tick of a later
\* iteration). The iteration that set is_over still runs to its end: after 'q'
\* its own tick still advances the snake when the tick period has elapsed.
\* From the sleep of that iteration on, snake, heading, score and food are
\* frozen.
C8_OverEndsLoop ==
    [][is_over =>
          /\ is_over'
          /\ pc' \notin {"poll", "tick"}
          /\ (pc # "tick" => (body' = body /\ dir' = dir /\ score' = score /\ food' = food))
          /\ (pc = "tick" /\ body' # body) => (pre.events # <<>> /\ Head(pre.events) = "q")
      ]_vars

C8_Witness == Ticked /\ pre.is_over /\ body # pre.body

(* -------------------------------- C9 ----------------------------------- *)

\* C9: when 'q' is the first pending event of the input step of a Running
\* game, is_over is true after that step whatever the tick clock says, and
\* once is_over is true the loop starts no other iteration: no render and no
\* poll follow, and at the loop condition only the exit is possible.
C9_QuitEndsLoop ==
    /\ (Applied("q") /\ ~pre.is_over) => (is_over /\ pc = "tick")
    /\ is_over => (pc \in {"tick", "sleep", "loop", "done"} /\ last \notin {"Render", "KeyPress"})
    /\ (is_over /\ pc = "loop") => (ENABLED Exit /\ ~ENABLED Render)

C9_Witness == Applied("q") /\ ~pre.is_over /\ is_over /\ pre.elapsed > TIME_STEP

(* -------------------------------- C10 ---------------------------------- *)

\* C10 as claimed: while is_over is false every snake cell, the head
\* included, is strictly inside the interior.
C10_SnakeInsideInterior ==
    ~is_over => \A i \in 1..Len(body) : Interior(body[i])

\* C10 as amended: while is_over is false every snake cell behind the head is
\* strictly inside the interior, and the head is strictly inside the interior
\* or on the wall cell it stepped onto in the last tick.
C10_BodyInsideHeadMayTouchWall ==
    ~is_over =>
        /\ \A i \in 2..Len(body) : Interior(body[i])
        /\ Interior(body[1]) \/ Border(body[1])

C10_Witness == ~is_over /\ Border(body[1]) /\ pc = "poll"

(* ------------------- more vocabulary of the claims -------------------- *)

\* anchors that are multiples of (W, H)
Aligned(c) == c[1] % CELL_SZ[1] = 0 /\ c[2] % CELL_SZ[2] = 0

\* the cell-aligned interior lattice
InteriorLattice ==
    {c \in {<<i * CELL_SZ[1], j * CELL_SZ[2]>> :
                i \in 0..(GND_SZ[1] \div CELL_SZ[1]), j \in 0..(GND_SZ[2] \div CELL_SZ[2])} :
        Interior(c)}

\* the wall as the four border segments
BorderCells ==
    {<<x, y>> : x \in {i * CELL_SZ[1] : i \in 1..(GND_SZ[1] \div CELL_SZ[1] - 1)},
                y \in {CELL_SZ[2], GND_SZ[2]}}
    \cup {<<x, y>> : x \in {CELL_SZ[1], GND_SZ[1] - CELL_SZ[1]},
                     y \in (CELL_SZ[2] + 1)..(GND_SZ[2] - 1)}

Cells(b) == {b[i] : i \in 1..Len(b)}

\* two anchors one cell step apart: W in x and 0 in y, or 0 in x and H in y
OneStep(c, e) ==
    \/ c[2] = e[2] /\ (c[1] - e[1] = CELL_SZ[1] \/ e[1] - c[1] = CELL_SZ[1])
    \/ c[1] = e[1] /\ (c[2] - e[2] = CELL_SZ[2] \/ e[2] - c[2] = CELL_SZ[2])

\* the heading an event k leaves when the heading was d
HeadingAfter(d, k) ==
    IF k \in {"Up", "Down", "Left", "Right"} /\ ~Opposite(d, k) THEN k ELSE d

\* the tick that ran last re-placed the food
Replaced == Ticked /\ pre.body[1] = pre.food

(* -------------------------------- C11 ---------------------------------- *)

\* C11 as claimed: in every reachable state the food anchor is a multiple of
\* (W, H), lies strictly inside the interior and is on no wall cell.
C11_FoodInsideInterior ==
    /\ Aligned(food)
    /\ Interior(food)
    /\ food \notin wall

(* -------------------------------- C12 ---------------------------------- *)

\* C12: at the end of every tick that re-places the food, the new food anchor
\* differs from the anchor of every snake cell, the newly grown head included.
C12_FoodOffSnake ==
    Replaced =>
        /\ food # body[1]
        /\ \A i \in 2..Len(body) : food # body[i]

C12_Witness ==
    /\ Replaced
    /\ body = <<<<28, 30>>, <<30, 30>>, <<32, 30>>, <<32, 29>>>>
    /\ food = <<26, 30>>

(* -------------------------------- C13 ---------------------------------- *)

\* the snake b covers every cell of the interior
Fills(b) == InteriorLattice \subseteq Cells(b)

\* C13 as claimed: when a tick is about to enter the placement loop, some
\* anchor the sampler can produce is off the grown snake, so the loop can end
\* and the tick can complete; and a tick whose growth fills the interior does
\* not enter the loop: the food is not re-placed.
C13_PlacementNeverSpins ==
    /\ (pc = "tick" /\ TickDue(elapsed) /\ ticks < MaxTicks /\ body[1] = food) =>
           /\ \E f \in FoodSamples : f \notin Cells(Grown(body, dir))
           /\ ENABLED update_game_state
    /\ (Replaced /\ Fills(body)) => food = pre.food

(* -------------------------------- C14 ---------------------------------- *)

\* C14: in every reachable state, body[i] and body[i+1] are exactly one cell
\* step apart for every i: in the snake Snake::new builds and after every
\* grow and step.
C14_BodyContinuity ==
    \A i \in 1..(Len(body) - 1) : OneStep(body[i], body[i + 1])

C14_Witness ==
    /\ Ticked
    /\ Len(body) = 4
    /\ body[1][2] # body[4][2]
    /\ body[1][1] # body[4][1]

(* -------------------------------- C15 ---------------------------------- *)

\* the last cell of the body b
TailCell(b) == b[Len(b)]

\* C15 as claimed: a Running tick whose prospective head is the current tail
\* cell, the cell a plain step vacates, is a collision and enters Over.
C15_TailCellIsCollision ==
    (RunningTick /\ Ahead(pre.body[1], pre.dir) = TailCell(pre.body)) => is_over

\* C15 as amended: a Running tick that does not eat and whose prospective head
\* is the current tail cell moves the head into the cell the tail leaves on
\* that same tick; the tick enters Over only when the head it started from
\* already was on a wall cell or on a body cell.
C15_HeadTakesVacatedTailCell ==
    (RunningTick /\ Ahead(pre.body[1], pre.dir) = TailCell(pre.body)
                 /\ pre.body[1] # pre.food) =>
        /\ body = Stepped(pre.body, pre.dir)
        /\ body[1] = TailCell(pre.body)
        /\ is_over <=> (Border(pre.body[1]) \/ pre.body[1] \in Behind(pre.body))

C15_Witness ==
    /\ RunningTick
    /\ pre.body = <<<<30, 29>>, <<28, 29>>, <<28, 30>>, <<30, 30>>>>
    /\ pre.dir = "Down"
    /\ body = <<<<30, 30>>, <<30, 29>>, <<28, 29>>, <<28, 30>>>>
    /\ ~is_over

(* -------------------------------- C16 ---------------------------------- *)

\* a collision ahead: the cell one step from the head of b in direction d is
\* a wall cell or a cell of b behind the head
CollisionAhead(b, d) == Border(Ahead(b[1], d)) \/ Ahead(b[1], d) \in Behind(b)

\* a collision under the head of b
CollisionHere(b) == Border(b[1]) \/ b[1] \in Behind(b)

\* every tick follows the input step of its own iteration, with the queue
\* drained and the heading as that input step left it, and advances the head
\* in that heading
InputThenTick ==
    /\ polled # NotPolled
    /\ pre.events = <<>>
    /\ pre.dir = HeadingAfter(polled.dir, polled.key)
    /\ dir = pre.dir
    /\ body[1] = Ahead(pre.body[1], pre.dir)

\* C16 as claimed: in every iteration the pending key is applied before the
\* tick, and both the head advance and the collision evaluation of the tick
\* use the heading as updated by that key.
C16_TickUsesUpdatedHeading ==
    Ticked =>
        /\ InputThenTick
        /\ is_over <=> (pre.is_over \/ CollisionAhead(pre.body, pre.dir))

\* C16 as amended: in every iteration the pending key is applied before the
\* tick and the head advance of the tick uses the heading as updated by that
\* key; the collision evaluation of the tick does not read the heading: it
\* tests the cell the head already occupies, so the key applied in the
\* iteration does not decide whether this tick sets is_over.
C16_TickAdvancesInUpdatedHeading ==
    Ticked =>
        /\ InputThenTick
        /\ is_over <=> (pre.is_over \/ CollisionHere(pre.body))

C16_Witness ==
    /\ Ticked
    /\ polled = [dir |-> "Right", key |-> "Down"]
    /\ pre.dir = "Down"
    /\ body[1] = <<pre.body[1][1], pre.body[1][2] + CELL_SZ[2]>>

(* -------------------------------- C17 ---------------------------------- *)

\* the first event of a queue, "none" for an empty one
First(q) == IF q = <<>> THEN "none" ELSE Head(q)

\* C17: the input step applies at most the first pending event: heading and
\* is_over after it depend on that event alone, every further queued event
\* (arrow keys and 'q' included) is consumed without effect, nothing else
\* changes, and the queue is empty when the step ends.
C17_InputDrain ==
    last = "process_event" =>
        /\ events = <<>>
        /\ dir = HeadingAfter(pre.dir, First(pre.events))
        /\ is_over = (pre.is_over \/ First(pre.events) = "q")
        /\ body = pre.body
        /\ food = pre.food
        /\ score = pre.score

C17_Witness ==
    /\ last = "process_event"
    /\ pre.events = <<"Up", "q">>
    /\ dir = "Up"
    /\ ~is_over
    /\ events = <<>>

(* -------------------------------- C18 ---------------------------------- *)

\* C18: no u16 subtraction goes below zero: the snake Snake::new builds and
\* every head a tick computes, the move of the tick that detects a collision
\* included, have the coordinates unbounded integer arithmetic gives, and
\* these are >= 0.
C18_NoUnderflow ==
    /\ last = "Init" =>
          \A i \in 1..Len(body) :
              body[i] = <<GND_SZ[1] \div 2 - (i - 1) * CELL_SZ[1], GND_SZ[2] \div 2>>
    /\ Ticked =>
          /\ body[1] = Ahead(pre.body[1], pre.dir)
          /\ Ahead(pre.body[1], pre.dir)[1] >= 0
          /\ Ahead(pre.body[1], pre.dir)[2] >= 0

C18_Witness ==
    /\ Ticked
    /\ BecameOver
    /\ pre.dir = "Up"
    /\ pre.body[1][2] = CELL_SZ[2]
    /\ body[1][2] = 0

(* -------------------------------- C19 ---------------------------------- *)

\* every one-step move out of the interior lattice lands on a cell of w
Encloses(w) ==
    \A c \in InteriorLattice : \A d \in {"Up", "Down", "Left", "Right"} :
        Ahead(c, d) \in InteriorLattice \/ Ahead(c, d) \in w

\* C19: the wall is exactly the rows y = H and y = GH for x in {W, ..., GW-W}
\* and the columns x = W and x = GW-W for H < y < GH, it encloses the
\* interior without a gap, and no step changes it: the wall is this set in
\* the initial state and in every state after it.
C19_WallShape ==
    /\ wall = BorderCells
    /\ last = "Init" => Encloses(wall)

C19_Witness ==
    /\ Ticked
    /\ BecameOver
    /\ pre.body[1] \in wall
    /\ wall = BorderCells

(* -------------------------------- C20 ---------------------------------- *)

\* C20 as claimed: when a tick is about to re-place the food, the anchors it
\* can end on are exactly the cells of the interior lattice the grown snake
\* does not occupy, those of the row y = GH-H and of the column x = GW-2W
\* included.
C20_SampleDomain ==
    (pc = "tick" /\ TickDue(elapsed) /\ body[1] = food) =>
        {f \in FoodSamples : ~check_overlap_food(grow_body(body, dir), f)}
            = InteriorLattice \ Cells(Grown(body, dir))

====
